---- MODULE Spec2Model ----
(***************************************************************************)
(* Verification model of the pose-gallery front end: the Next.js API       *)
(* routes that proxy the search endpoints to the backend, and the          *)
(* EnhancedSearchBar component that drives vector search on the poses      *)
(* page.  String literals of the source are Chinese; they are rendered     *)
(* here as ASCII literals with the same role (the original is quoted in    *)
(* the comment next to each).                                              *)
(***************************************************************************)
EXTENDS Integers, Sequences, FiniteSets, TLC

VARIABLES
    api,                  \* one invocation of an API route handler: request, backend behaviour, response
    query,                \* EnhancedSearchBar: text of the input box
    vectorSearchMode,     \* EnhancedSearchBar: 'dynamic' | 'paginated'
    vectorServiceStatus,  \* EnhancedSearchBar: cached {available, message, lastChecked}
    searchInfo,           \* EnhancedSearchBar: SearchInfo | null
    isLoading,            \* EnhancedSearchBar
    isVectorLoading,      \* EnhancedSearchBar
    showSuggestions,      \* EnhancedSearchBar
    hvs,                  \* the invocation of handleVectorSearch: position, the query and (while
                          \* it runs) the mode of its closure, steps taken and callbacks invoked
    net,                  \* HTTP requests of the browser that are in flight, oldest first
    page,                 \* poses page state written by the search bar's callbacks
    suggestions,          \* the suggestion list shown under the input
    pageRun,              \* poses page: whether its effect is due, and its fetches in flight
    home,                 \* the earlier version of the page (app/page.js) under the earlier
                          \* version of the search bar
    plan,                 \* backend: one run of the retrieval planner in DYNAMIC mode
    selectedIndex,        \* EnhancedSearchBar: index of the highlighted suggestion, -1 for none
    feed,                 \* app/page.tsx: the Home page that accumulates the pages of useSearch
    proxy,                \* lib/api-proxy.js: one call of proxyToBackendWithTimeout, step by step
    store,                \* backend: the Embedding Index Store, its reload and its readers
    failedProbes          \* history: whether status probes are counted, and how many of the
                          \* last results stored were failures in a row (3 stands for 3 or more)

vars == <<api, query, vectorSearchMode, vectorServiceStatus, searchInfo, isLoading,
          isVectorLoading, showSuggestions, hvs, net, page, suggestions, pageRun, home,
          plan, failedProbes, selectedIndex, feed, proxy, store>>

clientVars == <<query, vectorSearchMode, vectorServiceStatus, searchInfo, isLoading,
                isVectorLoading, showSuggestions, hvs, net, page, suggestions, pageRun, home,
          plan, failedProbes, selectedIndex, feed, proxy, store>>

\* the variables that only some of the specifications below use
pageVars == <<pageRun, home>>
history == <<failedProbes, pageVars, plan, selectedIndex, feed, proxy, store>>

\* the state outside the pages: the search bar, the route handlers, the planner
barVars == <<api, query, vectorSearchMode, vectorServiceStatus, searchInfo, isLoading,
             isVectorLoading, showSuggestions, hvs, net, suggestions, failedProbes, plan,
             selectedIndex, feed, proxy, store>>

\* the search bar and the poses page under it
barPageVars == <<query, vectorSearchMode, vectorServiceStatus, searchInfo, isLoading,
                 isVectorLoading, showSuggestions, hvs, net, suggestions, failedProbes, plan,
                 selectedIndex, pageVars, proxy, store>>

\* the search bar and the poses page under it, without the proxy and the index store
barPageBase == <<query, vectorSearchMode, vectorServiceStatus, searchInfo, isLoading,
                 isVectorLoading, showSuggestions, hvs, net, suggestions, failedProbes, plan,
                 selectedIndex, pageVars>>

barPageVars0 == <<barPageBase, store>>

\* the state of the front end
frontVars == <<api, query, vectorSearchMode, vectorServiceStatus, searchInfo, isLoading,
               isVectorLoading, showSuggestions, hvs, net, suggestions, failedProbes,
               page, pageVars, selectedIndex, feed, proxy, store>>

-----------------------------------------------------------------------------
(* Bounds *)

MaxInFlight == 2     \* browser requests in flight at one time
MaxPoses == 1        \* most poses in one backend answer

-----------------------------------------------------------------------------
(* Program constants *)

DefaultTimeout == 10000       \* proxyToBackendWithTimeout(request, endpoint, timeout = 10000)
DefaultPage == 1              \* body?.page || 1
DefaultPageSize == 20         \* body?.page_size || 20
PaginatedPageSize == 20       \* handlePaginatedSearch: page_size: 20

RouteVector == "/api/search/vector"
RouteEnhanced == "/api/search/vector/enhanced"
RoutePaginated == "/api/search/vector/paginated"
RouteAIDatabase == "/api/search/ai-database"
RouteAI == "/api/search/ai"

Routes == {RouteVector, RouteEnhanced, RoutePaginated, RouteAIDatabase, RouteAI}

-----------------------------------------------------------------------------
(* JSON values.  A JSON body is a record of the fields the handlers and    *)
(* the component read; an absent field is marked by its has* flag or by    *)
(* the value "absent".  kind = "null" is the JSON value null, and          *)
(* kind = "none" a response without a JSON body.                           *)

NoInfoField == [present |-> FALSE, error_details |-> "", fallback_available |-> FALSE,
                 page |-> 0, page_size |-> 0, found_results |-> 0]

NoBody == [kind |-> "none", hasPoses |-> FALSE, poses |-> <<>>, hasTotal |-> FALSE, total |-> 0,
           service_available |-> "absent", error |-> "", message |-> "",
           search_info |-> NoInfoField]

NullBody == [NoBody EXCEPT !.kind = "null"]

PoseLists == {[i \in 1..n |-> i] : n \in 0..MaxPoses}

\* what the backend may answer with a 2xx status and a parsable body
BackendData ==
    {[NoBody EXCEPT !.kind = "object", !.hasPoses = TRUE, !.poses = ps, !.hasTotal = TRUE,
                    !.total = Len(ps), !.service_available = sa,
                    !.error = IF sa = "false" THEN "index not loaded" ELSE ""]
        : ps \in PoseLists, sa \in {"true", "false"}}
    \cup {[NoBody EXCEPT !.kind = "object"], NullBody}

\* what the backend would answer if it were given longer than the timeout
SlowData == {d \in BackendData : d.service_available = "true" /\ Len(d.poses) = MaxPoses}

\* behaviours of the backend seen by fetch() in proxyToBackend: how the exchange ends
\* if it is left alone (kind), and after how many ms (latency): at once, or not before
\* the timer of the proxy fires
BackendKinds == {"network_error", "non_2xx", "bad_json", "ok"}

BackendOutcomes ==
    {[kind |-> k, data |-> NoBody, latency |-> 0] : k \in BackendKinds \ {"ok"}}
    \cup {[kind |-> "ok", data |-> d, latency |-> 0] : d \in BackendData}
    \cup {[kind |-> "ok", data |-> d, latency |-> DefaultTimeout] : d \in SlowData}

\* request bodies: text that parses as JSON with optional page / page_size, or does not parse
RequestBodies ==
    {[parses |-> TRUE, hasQuery |-> TRUE, page |-> p, page_size |-> s]
        : p \in {0, 1, 3}, s \in {0, 10, 20}}
    \cup {[parses |-> FALSE, hasQuery |-> FALSE, page |-> 0, page_size |-> 0]}

-----------------------------------------------------------------------------
(* lib/api-proxy.js *)

\* result of an async function: a returned Response or a thrown error
Returned(status, body) == [threw |-> FALSE, error |-> "", status |-> status, body |-> body]
Thrown(msg) == [threw |-> TRUE, error |-> msg, status |-> 0, body |-> NoBody]

\* proxyToBackend: fetch the backend, throw on a rejected fetch, on !response.ok and on
\* an unparsable body, otherwise Response.json(data) (status 200)
proxyToBackend(outcome, aborted) ==
    CASE aborted                        -> Thrown("This operation was aborted")
      [] outcome.kind = "network_error" -> Thrown("fetch failed")
      [] outcome.kind = "non_2xx"       -> Thrown("Backend error: 500 Internal Server Error")
      [] outcome.kind = "bad_json"      -> Thrown("Unexpected token < in JSON")
      [] OTHER                          -> Returned(200, outcome.data)

\* the timer of proxyToBackendWithTimeout fires before the backend has answered
TimedOut(outcome, timeout) == outcome.latency >= timeout

\* proxyToBackendWithTimeout: controller.abort() after `timeout` ms rejects the pending
\* fetch; the result or the error of proxyToBackend is passed on unchanged
proxyToBackendWithTimeout_noAbort(outcome, timeout) ==
    proxyToBackend(outcome, FALSE)

proxyToBackendWithTimeout(outcome, timeout) ==
    proxyToBackend(outcome, TimedOut(outcome, timeout))

\* the call step by step. A behaviour of the backend says, besides how the exchange ends
\* and after how long, which part takes the time: the response headers (the fetch is
\* pending) or the body (response.json() is pending)
HealthTimeout == 5000

ProxyTimeouts == {HealthTimeout, DefaultTimeout}

ProxyBehaviours ==
    {[kind |-> o.kind, data |-> o.data, latency |-> l, slow |-> part]
        : o \in {b \in BackendOutcomes : b.latency = 0},
          l \in {0} \cup ProxyTimeouts,
          part \in {"none", "headers", "body"}}

\* the behaviours that can happen: a part is slow exactly when time is taken, and only
\* an answer with a 2xx status has its body read
ProxyBehaviour(b) ==
    /\ b.slow = "none" <=> b.latency = 0
    /\ b.slow = "body" => b.kind \in {"bad_json", "ok"}

ProxyIdle == [pc |-> "idle", timer |-> "none", method |-> "GET",
              outcome |-> [kind |-> "ok", data |-> NoBody, latency |-> 0, slow |-> "none"],
              timeout |-> DefaultTimeout, aborted |-> FALSE, result |-> Thrown("")]

\* clearTimeout(timeoutId): a timer that has not fired will not fire
clearTimeout_forgotten(timer) == timer

clearTimeout(timer) == IF timer = "armed" THEN "cleared" ELSE timer

\* proxyToBackendWithTimeout up to the first await of proxyToBackend: the controller and
\* the timer are set up; a request that is not a GET has its body read first
ProxyStart(method, b, timeout) ==
    /\ proxy.pc = "idle"
    /\ ProxyBehaviour(b)
    /\ proxy' = [ProxyIdle EXCEPT !.pc = IF method = "GET" THEN "fetch" ELSE "text",
                                  !.timer = "armed", !.method = method, !.outcome = b,
                                  !.timeout = timeout]
    /\ UNCHANGED <<api, page, feed, barPageVars0>>

\* `await request.text()` is done
ProxyText ==
    /\ proxy.pc = "text"
    /\ proxy' = [proxy EXCEPT !.pc = "fetch"]
    /\ UNCHANGED <<api, page, feed, barPageVars0>>

\* the part of the exchange the call waits for at pc takes the timer's time or longer
ProxyWaits(pc) ==
    /\ TimedOut(proxy.outcome, proxy.timeout)
    /\ \/ pc = "fetch" /\ proxy.outcome.slow = "headers"
       \/ pc = "json" /\ proxy.outcome.slow = "body"

\* `await fetch(targetUrl, fetchOptions)` settles: rejected, answered with a status that
\* is not ok (an Error is thrown), or answered ok
ProxyFetch ==
    /\ proxy.pc = "fetch"
    /\ ~ProxyWaits("fetch")
    /\ proxy' = CASE proxy.outcome.kind = "network_error" ->
                        [proxy EXCEPT !.pc = "catch",
                                      !.result = proxyToBackend(proxy.outcome, FALSE)]
                   [] proxy.outcome.kind = "non_2xx" ->
                        [proxy EXCEPT !.pc = "catch",
                                      !.result = proxyToBackend(proxy.outcome, FALSE)]
                   [] OTHER -> [proxy EXCEPT !.pc = "json"]
    /\ UNCHANGED <<api, page, feed, barPageVars0>>

\* `await response.json()` settles, and on success the try block of
\* proxyToBackendWithTimeout clears the timer and returns the result
ProxyJson ==
    /\ proxy.pc = "json"
    /\ ~ProxyWaits("json")
    /\ proxy' = IF proxy.outcome.kind = "bad_json"
                THEN [proxy EXCEPT !.pc = "catch",
                                   !.result = proxyToBackend(proxy.outcome, FALSE)]
                ELSE [proxy EXCEPT !.pc = "done", !.timer = clearTimeout(@),
                                   !.result = proxyToBackend(proxy.outcome, FALSE)]
    /\ UNCHANGED <<api, page, feed, barPageVars0>>

\* the timer fires: controller.abort() rejects the pending fetch or the pending read of
\* the body. Time passes only while the call waits or after it has completed
ProxyTimer ==
    /\ proxy.timer = "armed"
    /\ ProxyWaits(proxy.pc) \/ proxy.pc = "done"
    /\ proxy' = IF proxy.pc = "done"
                THEN [proxy EXCEPT !.timer = "fired", !.aborted = TRUE]
                ELSE [proxy EXCEPT !.timer = "fired", !.aborted = TRUE, !.pc = "catch",
                                   !.result = proxyToBackend(proxy.outcome, TRUE)]
    /\ UNCHANGED <<api, page, feed, barPageVars0>>

\* the catch blocks: proxyToBackend logs and rethrows, proxyToBackendWithTimeout clears
\* the timer and rethrows
ProxyCatch ==
    /\ proxy.pc = "catch"
    /\ proxy' = [proxy EXCEPT !.pc = "done", !.timer = clearTimeout(@)]
    /\ UNCHANGED <<api, page, feed, barPageVars0>>

ProxyStep == ProxyText \/ ProxyFetch \/ ProxyJson \/ ProxyTimer \/ ProxyCatch

\* what Next.js answers when a route handler lets an exception escape
UnhandledError(msg) == [threw |-> TRUE, error |-> msg, status |-> 500, body |-> NoBody]

-----------------------------------------------------------------------------
(* API route handlers *)

\* app/api/search/vector/route.js POST
VectorFallbackBody ==
    [NoBody EXCEPT !.kind = "object", !.hasPoses = TRUE, !.poses = <<>>, !.hasTotal = TRUE,
                   !.total = 0, !.service_available = "false",
                   !.error = "Vector search failed",
                   !.message = "vector search temporarily unavailable, use normal search"]

\* the handler as it would be with the failure answered as an error status
POST_vector_status500(req, outcome) ==
    LET r == proxyToBackendWithTimeout(outcome, DefaultTimeout)
    IN IF r.threw THEN Returned(500, VectorFallbackBody) ELSE r

POST_vector(req, outcome) ==
    LET r == proxyToBackendWithTimeout(outcome, DefaultTimeout)
    IN IF r.threw THEN Returned(200, VectorFallbackBody) ELSE r

\* app/api/search/vector/enhanced/route.js POST
EnhancedFallbackBody(msg) ==
    [NoBody EXCEPT !.kind = "object", !.hasPoses = TRUE, !.poses = <<>>, !.hasTotal = TRUE,
                   !.total = 0, !.service_available = "false",
                   !.error = "Enhanced vector search failed",
                   !.message = "enhanced vector search temporarily unavailable, use normal search",
                   !.search_info = [NoInfoField EXCEPT !.present = TRUE, !.error_details = msg,
                                                        !.fallback_available = TRUE]]

POST_enhanced(req, outcome) ==
    IF ~req.parses
    THEN Returned(200, EnhancedFallbackBody("Unexpected end of JSON input"))
    ELSE LET r == proxyToBackendWithTimeout(outcome, DefaultTimeout)
         IN IF r.threw THEN Returned(200, EnhancedFallbackBody(r.error)) ELSE r

\* app/api/search/vector/paginated/route.js POST.  `body` is declared with const inside
\* the try block, so the catch block's `body?.page` reads an identifier that is not in
\* scope: evaluating the fallback object throws a ReferenceError out of the handler.
PaginatedCatch(req, msg) == UnhandledError("body is not defined")

POST_paginated(req, outcome) ==
    IF ~req.parses
    THEN PaginatedCatch(req, "Unexpected end of JSON input")
    ELSE LET r == proxyToBackendWithTimeout(outcome, DefaultTimeout)
         IN IF r.threw THEN PaginatedCatch(req, r.error) ELSE r

\* app/api/search/ai-database/route.js POST
AIDatabaseFallbackBody ==
    [NoBody EXCEPT !.kind = "object", !.error = "AI database search failed",
                   !.message = "AI database search temporarily unavailable, use normal search"]

POST_ai_database(req, outcome) ==
    LET r == proxyToBackendWithTimeout(outcome, DefaultTimeout)
    IN IF r.threw THEN Returned(500, AIDatabaseFallbackBody) ELSE r

\* app/api/search/ai/route.js POST
AIFallbackBody ==
    [NoBody EXCEPT !.kind = "object", !.error = "AI search failed",
                   !.message = "AI search temporarily unavailable, use normal search"]

POST_ai(req, outcome) ==
    LET r == proxyToBackendWithTimeout(outcome, DefaultTimeout)
    IN IF r.threw THEN Returned(500, AIFallbackBody) ELSE r

-----------------------------------------------------------------------------
(* app/api/poses/route.js and app/api/categories/route.js: the GET routes  *)

RoutePoses == "/api/poses"
RouteCategories == "/api/categories"
\* the other version of the categories route kept in the repository
RouteCategoriesV1 == "/api/categories -> /api/v1/categories"
GetRoutes == {RoutePoses, RouteCategories, RouteCategoriesV1}

\* a parameter of the query string: absent (searchParams.get gives null), or a text
NoParam == [present |-> FALSE, text |-> <<>>]
Param(t) == [present |-> TRUE, text |-> t]

\* page and per_page as sent: absent, empty, numerals, and texts that are not numerals
Params ==
    {NoParam} \cup {Param(t) : t \in {<<>>, <<"2">>, <<"1", "0">>, <<"x">>, <<"3", "x">>}}
GetRequests == [page : Params, per_page : Params]
NoRequest == [page |-> NoParam, per_page |-> NoParam]

\* searchParams.get(name) || d
GetOr(p, d) == IF p.present /\ p.text # <<>> THEN p.text ELSE d

Digits == <<"0", "1", "2", "3", "4", "5", "6", "7", "8", "9">>
IsDigit(c) == \E k \in DOMAIN Digits : Digits[k] = c
DigitValue(c) == (CHOOSE k \in DOMAIN Digits : Digits[k] = c) - 1

\* a JavaScript number that is an integer, and NaN
Number(n) == [nan |-> FALSE, n |-> n]
NaN == [nan |-> TRUE, n |-> 0]

\* the value of the digits at the start of t, read after the value acc
RECURSIVE ParseDigits(_, _)
ParseDigits(t, acc) ==
    IF t = <<>> \/ ~IsDigit(Head(t)) THEN acc
    ELSE ParseDigits(Tail(t), acc * 10 + DigitValue(Head(t)))

\* parseInt on a text without sign and white space: the leading digits, NaN without one
parseInt(t) ==
    IF t = <<>> \/ ~IsDigit(Head(t)) THEN NaN ELSE Number(ParseDigits(t, 0))

\* the ids of the mock poses of the poses route
MockPoses == <<1, 2, 3>>

\* the timer of the poses route aborts the fetch after this many ms
PosesTimeout == 10000

\* the body the catch block of the poses route answers with (JSON writes NaN as null)
MockPosesBody(req) ==
    [kind |-> "object", hasPoses |-> TRUE, poses |-> MockPoses, total |-> Len(MockPoses),
     page |-> parseInt(GetOr(req.page, <<"1">>)),
     per_page |-> parseInt(GetOr(req.per_page, <<"2", "0">>)),
     hasMore |-> FALSE]

\* the poses route as it would be if a backend error status were passed on
GET_poses_passError(req, outcome) ==
    CASE TimedOut(outcome, PosesTimeout)                -> Returned(200, MockPosesBody(req))
      [] outcome.kind = "non_2xx"                        -> Returned(500, NoBody)
      [] outcome.kind \in {"network_error", "bad_json"} -> Returned(200, MockPosesBody(req))
      [] OTHER                                           -> Returned(200, outcome.data)

\* GET /api/poses: the backend's JSON for a 2xx answer in time, the mock data for
\* everything that throws inside the try block
GET_poses(req, outcome) ==
    CASE TimedOut(outcome, PosesTimeout)                           -> Returned(200, MockPosesBody(req))
      [] outcome.kind \in {"network_error", "non_2xx", "bad_json"} -> Returned(200, MockPosesBody(req))
      [] OTHER                                                     -> Returned(200, outcome.data)

\* the ids of the five default categories
DefaultCategories == <<1, 2, 3, 4, 5>>

DefaultCategoriesBody == [kind |-> "array", items |-> DefaultCategories]

CategoriesUnavailableBody == [kind |-> "object", error |-> "Backend API not available"]

\* GET /api/categories of app/api/categories/route.js: `!response.ok` answers 503 from
\* inside the try block; the block after `catch {}` answers with the defaults when the
\* fetch or response.json() threw.  There is no timer: a late answer is waited for.
GET_categories(req, outcome) ==
    CASE outcome.kind = "non_2xx"                      -> Returned(503, CategoriesUnavailableBody)
      [] outcome.kind \in {"network_error", "bad_json"} -> Returned(200, DefaultCategoriesBody)
      [] OTHER                                         -> Returned(200, outcome.data)

\* the other version of the route: `!response.ok` throws into the catch block
GET_categories_v1(req, outcome) ==
    CASE outcome.kind \in {"network_error", "non_2xx", "bad_json"} -> Returned(200, DefaultCategoriesBody)
      [] OTHER                                                     -> Returned(200, outcome.data)

\* dispatch of a GET request to the handler of its route
RouteGET(route, req, outcome) ==
    CASE route = RoutePoses      -> GET_poses(req, outcome)
      [] route = RouteCategories -> GET_categories(req, outcome)
      [] OTHER                   -> GET_categories_v1(req, outcome)

\* dispatch of a POST request to the handler of its route
RoutePOST(route, req, outcome) ==
    CASE route = RouteVector     -> POST_vector(req, outcome)
      [] route = RouteEnhanced   -> POST_enhanced(req, outcome)
      [] route = RoutePaginated  -> POST_paginated(req, outcome)
      [] route = RouteAIDatabase -> POST_ai_database(req, outcome)
      [] OTHER                   -> POST_ai(req, outcome)

\* the backend call of this invocation failed (or, for the handlers that parse the
\* body themselves, the request body did not parse)
BackendFailed(a) ==
    \/ a.outcome.kind # "ok"
    \/ TimedOut(a.outcome, DefaultTimeout)
    \/ a.route \in {RouteEnhanced, RoutePaginated} /\ ~a.req.parses

NoResponse == [threw |-> FALSE, error |-> "", status |-> 0, body |-> NoBody]

ApiIdle == [pc |-> "idle"]

\* an external HTTP client posts to one of the routes
ApiReceive(route, req, outcome) ==
    /\ api.pc = "idle"
    /\ api' = [pc |-> "handling", route |-> route, req |-> req, outcome |-> outcome,
               resp |-> NoResponse]
    /\ UNCHANGED clientVars

\* an external HTTP client sends a GET request to one of the routes
ApiGet(route, req, outcome) ==
    /\ api.pc = "idle"
    /\ route = RoutePoses \/ req = NoRequest
    /\ api' = [pc |-> "handling", route |-> route, req |-> req, outcome |-> outcome,
               resp |-> NoResponse]
    /\ UNCHANGED clientVars

\* the route handler runs to completion and the response (or Next's 500 for an escaped
\* exception) goes back
ApiRespond ==
    /\ api.pc = "handling"
    /\ api' = [api EXCEPT !.pc = "responded",
                           !.resp = IF api.route \in GetRoutes
                                    THEN RouteGET(api.route, api.req, api.outcome)
                                    ELSE RoutePOST(api.route, api.req, api.outcome)]
    /\ UNCHANGED clientVars

ApiClose ==
    /\ api.pc = "responded"
    /\ api' = ApiIdle
    /\ UNCHANGED clientVars

-----------------------------------------------------------------------------
(* Texts of the input box: sequences of characters, " " a blank and "pai"  *)
(* character that occurs in the local suggestion texts.                    *)

\* the texts typed into the box (which starts empty): a blank one, and one with a
\* character
Queries == {<<" ">>, <<"pai">>}

RECURSIVE TrimStart(_)
TrimStart(q) == IF q # <<>> /\ Head(q) = " " THEN TrimStart(Tail(q)) ELSE q

RECURSIVE TrimEnd(_)
TrimEnd(q) == IF q # <<>> /\ q[Len(q)] = " " THEN TrimEnd(SubSeq(q, 1, Len(q) - 1)) ELSE q

\* trim as it would be if it removed nothing
Trim_nothing(q) == q

\* String.prototype.trim
Trim(q) == TrimEnd(TrimStart(q))

-----------------------------------------------------------------------------
(* lib/api.ts: the browser side of the vector endpoints *)

\* Response.ok
Ok(resp) == resp.status >= 200 /\ resp.status <= 299

\* Response.statusText
StatusText(resp) == IF resp.status = 200 THEN "OK" ELSE "Internal Server Error"

\* value of an async call: a result, or a thrown error with its message
Value(v) == [threw |-> FALSE, error |-> "", value |-> v]
Throws(msg) == [threw |-> TRUE, error |-> msg, value |-> NoBody]

\* fetch(...) then response.json() as searchVectorPaginated and searchVectorEnhanced do
searchVector(r) ==
    CASE r.state = "rejected"     -> Throws("Failed to fetch")
      [] ~Ok(r.resp)              -> Throws("search failed: " \o StatusText(r.resp))
      [] r.resp.body.kind = "none" -> Throws("Unexpected end of JSON input")
      [] OTHER                    -> Value(r.resp.body)

\* '向量搜索服务正常' / '向量搜索服务不可用' / '服务检查失败: ' / '服务连接失败: '
MsgServiceOk == "vector search service ok"
MsgServiceDown == "vector search service unavailable"
MsgCheckFailed == "service check failed: "
MsgConnectFailed == "service connection failed: "

\* checkVectorSearchStatus: the status check posts the query 'test' to /api/search/vector
\* and reads service_available off the answer; it never throws
StatusProbeRoute == RouteVector

\* { query: 'test', top_k: 1, min_similarity: 0.1 }
StatusProbeBody == [parses |-> TRUE, hasQuery |-> TRUE, page |-> 0, page_size |-> 0]

\* the check as it would be if its catch block reported the service as available
checkVectorSearchStatus_optimistic(r) ==
    CASE r.state = "rejected" ->
            [available |-> TRUE, message |-> MsgConnectFailed \o "Failed to fetch"]
      [] ~Ok(r.resp) ->
            [available |-> FALSE, message |-> MsgCheckFailed \o StatusText(r.resp)]
      [] r.resp.body.kind = "none" ->
            [available |-> FALSE, message |-> MsgConnectFailed \o "Unexpected end of JSON input"]
      [] r.resp.body.kind = "null" ->
            [available |-> FALSE, message |-> MsgConnectFailed \o "Cannot read properties of null"]
      [] OTHER ->
            [available |-> r.resp.body.service_available = "true",
             message |-> IF r.resp.body.service_available = "true"
                         THEN MsgServiceOk ELSE MsgServiceDown]

checkVectorSearchStatus(r) ==
    CASE r.state = "rejected" ->
            [available |-> FALSE, message |-> MsgConnectFailed \o "Failed to fetch"]
      [] ~Ok(r.resp) ->
            [available |-> FALSE, message |-> MsgCheckFailed \o StatusText(r.resp)]
      [] r.resp.body.kind = "none" ->
            [available |-> FALSE, message |-> MsgConnectFailed \o "Unexpected end of JSON input"]
      [] r.resp.body.kind = "null" ->
            [available |-> FALSE, message |-> MsgConnectFailed \o "Cannot read properties of null"]
      [] OTHER ->
            [available |-> r.resp.body.service_available = "true",
             message |-> IF r.resp.body.service_available = "true"
                         THEN MsgServiceOk ELSE MsgServiceDown]

-----------------------------------------------------------------------------
(* app/poses/page.js: the callbacks handed to EnhancedSearchBar *)

PageInit == [searchQuery |-> <<>>, filtersSearch |-> <<>>, isAISearch |-> FALSE,
             searchType |-> "normal", poses |-> <<>>, page |-> 1, hasMore |-> TRUE,
             loading |-> TRUE]

handleAISearchResult(pg, aiPoses) ==
    [pg EXCEPT !.poses = aiPoses, !.page = 1, !.hasMore = FALSE, !.isAISearch = TRUE,
               !.searchType = IF Len(aiPoses) > 0 THEN "ai" ELSE "normal",
               !.loading = FALSE]

handleSearchSubmit(pg, q) ==
    [pg EXCEPT !.searchQuery = q, !.filtersSearch = q, !.isAISearch = FALSE,
               !.searchType = "normal"]

\* the state updates of handleResetSearch
handleResetSearch(pg) ==
    [pg EXCEPT !.searchQuery = <<>>, !.filtersSearch = <<>>, !.isAISearch = FALSE,
               !.searchType = "normal", !.poses = <<>>, !.page = 1, !.hasMore = TRUE,
               !.loading = TRUE]

\* a JavaScript value read off a JSON field that should hold a list: the list, or
\* undefined when the field is missing
Undefined == [defined |-> FALSE, list |-> <<>>]
List(l) == [defined |-> TRUE, list |-> l]

\* data.poses
PosesField(data) == IF data.hasPoses THEN List(data.poses) ELSE Undefined

\* v || []
OrEmpty(v) == IF v.defined THEN v.list ELSE <<>>

\* per_page of the page's requests
PerPage == 20

\* the effect's dependencies page, isAISearch and searchType differ between two renders
\* (filters is a new object after every setFilters)
DepsChanged(old, new) ==
    \/ old.page # new.page
    \/ old.isAISearch # new.isAISearch
    \/ old.searchType # new.searchType

\* a call of fetchPoses waiting for its fetch: the arguments of its closure
PosesFetch(reset, pageNo, search) ==
    [owner |-> "page", reset |-> reset, pageNo |-> pageNo, search |-> search]

\* data.hasMore !== false
HasMoreNotFalse(data) == ~("hasMore" \in DOMAIN data /\ data.hasMore = FALSE)

\* fetchPoses after `await fetch`: the state updates for an answer with a JSON object
fetchPosesThen(pg, reset, data) ==
    LET got == OrEmpty(PosesField(data))
        more == HasMoreNotFalse(data) /\ Len(got) = PerPage
    IN IF reset
       THEN [pg EXCEPT !.poses = got, !.page = 2, !.isAISearch = FALSE,
                       !.searchType = "normal", !.hasMore = more, !.loading = FALSE]
       ELSE [pg EXCEPT !.poses = @ \o got, !.page = @ + 1, !.hasMore = more,
                       !.loading = FALSE]

\* fetchPoses after `await fetch` when the fetch rejected, the answer is not ok, or
\* reading data.poses threw: the catch block logs, finally sets loading
fetchPosesFinally(pg) == [pg EXCEPT !.loading = FALSE]

-----------------------------------------------------------------------------
(* app/page.js with the earlier search bar (handleAiDatabaseSearch)        *)

HomeInit == [poses |-> List(<<>>), page |-> 1, hasMore |-> TRUE, threw |-> FALSE]

\* handleAISearchResult of app/page.js: setPoses(aiPoses) as it is given
Home_handleAISearchResult(h, aiPoses) ==
    [h EXCEPT !.poses = aiPoses, !.page = 1, !.hasMore = FALSE]

\* handleSearchSubmit of app/page.js is written for a submit event: called as
\* onSearch(query) with a text, e.preventDefault() throws a TypeError
Home_handleSearchSubmit(h, q) == [h EXCEPT !.threw = TRUE]

-----------------------------------------------------------------------------
(* The retrieval planner of the backend, DYNAMIC mode.  Scores are in      *)
(* hundredths.  The candidate stream of the index is ranked by score; a    *)
(* pose may occur in it several times (copies), and the planner keeps the  *)
(* first, highest-scored occurrence of each.                               *)

\* min_similarity as handleDynamicSearch sends it (0.3)
MinSimilarity == 30

\* the maximum number of widenings and the hard ceiling of the requested pool
MaxWidenings == 4
PoolCeiling == 100

PlanIdle == [pc |-> "idle", index |-> [good |-> 0, copies |-> 1, low |-> 0], target |-> 0,
             pool |-> 0, widenings |-> 0, survivors |-> <<>>, results |-> <<>>]

\* the candidate at position p of the stream of an index with `good` poses at or above
\* the floor, each occurring `copies` times, followed by `low` poses below it
Candidate(ix, p) ==
    IF p <= ix.good * ix.copies
    THEN [id |-> (p + ix.copies - 1) \div ix.copies,
          score |-> 99 - ((p + ix.copies - 1) \div ix.copies)]
    ELSE [id |-> ix.good + (p - ix.good * ix.copies), score |-> MinSimilarity - 1]

\* the index queried for its `pool` best candidates
TopCandidates(ix, pool) ==
    LET len == ix.good * ix.copies + ix.low
    IN [p \in 1..(IF pool < len THEN pool ELSE len) |-> Candidate(ix, p)]

\* duplicates removed, the first occurrence of each id kept
Dedupe(cands) ==
    SelectSeq([p \in DOMAIN cands |->
                  [cands[p] EXCEPT !.id = IF \E q \in 1..(p - 1) : cands[q].id = cands[p].id
                                           THEN 0 ELSE @]],
              LAMBDA c : c.id # 0)

\* the candidates that survive the similarity filter
Survivors(cands, floor) == SelectSeq(Dedupe(cands), LAMBDA c : c.score >= floor)

\* the stream ran out, or its scores fell below the floor: a larger pool adds nothing
NoMoreRelevant(cands, pool, floor) ==
    \/ Len(cands) < pool
    \/ \E p \in DOMAIN cands : cands[p].score < floor

\* the pool of the next widening, as it would be without the ceiling
Widen_unbounded(pool) == 2 * pool

\* the pool of the next widening: doubled, up to the ceiling
Widen(pool) == IF 2 * pool > PoolCeiling THEN PoolCeiling ELSE 2 * pool

\* the results as they would be if all survivors were returned
TakeResults_all(survivors, target) == survivors

\* the results returned: the first target_count survivors
TakeResults(survivors, target) ==
    SubSeq(survivors, 1, IF Len(survivors) < target THEN Len(survivors) ELSE target)

\* PAGINATED mode: one pass without widening. The index is asked for the page * page_size
\* best candidates, duplicates are removed and the floor is applied, and the window of
\* the page is cut out of what is left
PlanWindow(ix, pageNo, page_size) ==
    LET s == Survivors(TopCandidates(ix, pageNo * page_size), MinSimilarity)
        last == IF Len(s) < pageNo * page_size THEN Len(s) ELSE pageNo * page_size
    IN SubSeq(s, (pageNo - 1) * page_size + 1, last)

-----------------------------------------------------------------------------
(* The Embedding Index Store: one writer reloads the index, search requests *)
(* read it. An index is named by its version; `current` is the published   *)
(* reference, `live` the indexes in memory, `building` whether a new index *)
(* is being built aside. A reader holds the reference it took when its     *)
(* request began (snap) and, as history, the versions its lookups read.    *)

Readers == {1, 2}

MaxReloads == 2
MaxLookups == 2

ReaderIdle == [pc |-> "idle", snap |-> 0, seen |-> <<>>]

StoreInit == [current |-> 0, live |-> {0}, building |-> FALSE,
              readers |-> [r \in Readers |-> ReaderIdle]]

\* the index a lookup would read if it followed the published reference each time
LookupIndex_current(st, r) == st.current

\* the index a lookup of reader r reads: the snapshot the request holds
LookupIndex(st, r) == st.readers[r].snap

\* the writer starts to build a new index off to the side
ReloadBuild ==
    /\ ~store.building
    /\ store.current < MaxReloads
    /\ store' = [store EXCEPT !.building = TRUE]
    /\ UNCHANGED <<api, page, feed, proxy, barPageBase>>

\* the new index is complete: it is published by one atomic update of the reference
ReloadSwap ==
    /\ store.building
    /\ store' = [store EXCEPT !.building = FALSE, !.current = @ + 1,
                              !.live = @ \cup {store.current + 1}]
    /\ UNCHANGED <<api, page, feed, proxy, barPageBase>>

\* an old snapshot is collected once the last reader has released it
StoreCollect(v) ==
    /\ v \in store.live
    /\ v # store.current
    /\ \A r \in Readers : store.readers[r].pc = "reading" => store.readers[r].snap # v
    /\ store' = [store EXCEPT !.live = @ \ {v}]
    /\ UNCHANGED <<api, page, feed, proxy, barPageBase>>

\* a search request begins: it takes the published reference
ReadStart(r) ==
    /\ store.readers[r].pc = "idle"
    /\ store' = [store EXCEPT !.readers[r] = [pc |-> "reading", snap |-> store.current,
                                              seen |-> <<>>]]
    /\ UNCHANGED <<api, page, feed, proxy, barPageBase>>

\* one lookup of the request (a pass of the planner), without a lock
ReadLookup(r) ==
    /\ store.readers[r].pc = "reading"
    /\ Len(store.readers[r].seen) < MaxLookups
    /\ store' = [store EXCEPT !.readers[r].seen = Append(@, LookupIndex(store, r))]
    /\ UNCHANGED <<api, page, feed, proxy, barPageBase>>

\* the request ends and releases its snapshot
ReadFinish(r) ==
    /\ store.readers[r].pc = "reading"
    /\ store' = [store EXCEPT !.readers[r] = ReaderIdle]
    /\ UNCHANGED <<api, page, feed, proxy, barPageBase>>

-----------------------------------------------------------------------------
(* components/EnhancedSearchBar.tsx *)

NullInfo == [isNull |-> TRUE, original_query |-> <<>>, ai_explanation |-> "",
             search_intent |-> ""]

Info(q, explanation, intent) ==
    [isNull |-> FALSE, original_query |-> q, ai_explanation |-> explanation,
     search_intent |-> intent]

\* '向量匹配' / '服务降级' / '服务不可用，已回退到普通搜索' / '搜索失败，已回退到普通搜索'
IntentVectorMatch == "vector match"
IntentDegraded == "service degraded"
IntentUnavailableFellBack == "service unavailable, fell back to normal search"
IntentFailedFellBack == "search failed, fell back to normal search"

\* JS truthiness of result.service_available
ServiceAvailable(data) == data.service_available = "true"

\* result.search_info?.found_results || result.poses?.length || 0
FoundResults(data) ==
    IF data.search_info.present /\ data.search_info.found_results # 0
    THEN data.search_info.found_results
    ELSE IF data.hasPoses THEN Len(data.poses) ELSE 0

\* the SearchInfo that handlePaginatedSearch and handleDynamicSearch set from a result
\* '使用向量相似度匹配找到最相关的姿势\n找到 N 个结果'
\* '向量搜索服务不可用，已为您执行普通搜索\n错误信息: ...' with '服务连接失败' as default error
ResultInfo(q, data) ==
    IF ServiceAvailable(data)
    THEN Info(q, "matched by vector similarity, found " \o ToString(FoundResults(data)) \o " results",
              IntentVectorMatch)
    ELSE Info(q, "vector search service unavailable, ran normal search for you, error: "
                 \o (IF data.error # "" THEN data.error ELSE "service connection failed"),
              IntentDegraded)

\* handlePaginatedSearch / handleDynamicSearch after the await: the result, or the error
\* they rethrow (a null result makes `result.service_available` throw inside the try)
handleModeSearch(r) ==
    LET res == searchVector(r)
    IN IF res.threw THEN res
       ELSE IF res.value.kind = "null"
            THEN Throws("Cannot read properties of null")
            ELSE res

\* data.poses && Array.isArray(data.poses) && data.poses.length > 0
HasResults(data) == data.hasPoses /\ Len(data.poses) > 0

\* the SearchInfo set when the status check reports the service unavailable
\* '向量搜索服务不可用: ${serviceStatus.message}'
UnavailableInfo(q, status) ==
    Info(Trim(q), "vector search service unavailable: " \o status.message,
         IntentUnavailableFellBack)

\* the SearchInfo set by the catch block of handleVectorSearch '向量搜索失败: ${error.message}'
FailedInfo(q, msg) ==
    Info(Trim(q), "vector search failed: " \o msg, IntentFailedFellBack)

\* the texts of getLocalSuggestions, one name per character
commonSuggestions ==
    << [text |-> <<"qiao", "pi", "ke", "ai">>,           type |-> "tag", weight |-> 9],
       [text |-> <<"ka", "fei", "ting", "pai", "zhao">>, type |-> "tag", weight |-> 8],
       [text |-> <<"zuo", "zi", "xie", "zhen">>,         type |-> "tag", weight |-> 7],
       [text |-> <<"hu", "wai", "ren", "xiang">>,        type |-> "tag", weight |-> 8],
       [text |-> <<"qing", "lv", "pai", "zhao">>,        type |-> "tag", weight |-> 9],
       [text |-> <<"jie", "tou", "she", "ying">>,        type |-> "tag", weight |-> 7],
       [text |-> <<"shi", "nei", "xie", "zhen">>,        type |-> "tag", weight |-> 8],
       [text |-> <<"shang", "wu", "xing", "xiang4">>,    type |-> "tag", weight |-> 6] >>

\* String.prototype.includes
Includes(text, part) ==
    \E k \in 0..(Len(text) - Len(part)) : SubSeq(text, k + 1, k + Len(part)) = part

\* Array.prototype.slice(0, n)
Slice(list, n) == SubSeq(list, 1, IF Len(list) < n THEN Len(list) ELSE n)

\* getLocalSuggestions: the entries whose text includes the typed text, in the order of
\* the list, the first five of them (weights in tenths)
getLocalSuggestions(prefix) ==
    Slice(SelectSeq(commonSuggestions, LAMBDA c : Includes(c.text, prefix)), 5)

HvsIdle == [pc |-> "idle", query |-> <<>>, mode |-> "dynamic",
            timedOut |-> FALSE, steps |-> <<>>, onSearchArgs |-> <<>>, onAIArgs |-> <<>>,
            threw |-> FALSE]

\* a request fetch() has sent; stale: a probe that started later has already been stored
Request(route, owner, purpose, req) ==
    [route |-> route, owner |-> owner, purpose |-> purpose, req |-> req, stale |-> FALSE]

CanIssue == Len(net) < MaxInFlight

\* net without its i-th request
Without(i) == SubSeq(net, 1, i - 1) \o SubSeq(net, i + 1, Len(net))

\* net once the result of its i-th request, a status probe, has been stored: the probes
\* that started before it are older than the stored one
WithoutProbe(i) ==
    [j \in 1..(i - 1) |-> [net[j] EXCEPT !.stale = TRUE]] \o SubSeq(net, i + 1, Len(net))

\* app/page.tsx (Home with useSearch): the state after a first search was typed; data is
\* what useSWR returns, which with keepPreviousData stays the answer of the previous key
\* while the current key is loading
NoData == [defined |-> FALSE, query |-> <<>>, page |-> 0, total |-> 0, poses |-> <<>>]

\* SearchBar.tsx under Home: where its handleSubmit stands, and as history how many
\* times the submit that ran last has called onSearch
BarIdle == [pc |-> "idle", query |-> <<>>, isLoading |-> FALSE, submitted |-> FALSE,
            handed |-> 0]

FeedInit == [searchQuery |-> <<"pai">>, page |-> 1, allPoses |-> <<>>, data |-> NoData,
             bar |-> BarIdle]

\* isLoading of useSWR: the current key has no loaded data
FeedLoading(f) ==
    ~(f.data.defined /\ f.data.query = f.searchQuery /\ f.data.page = f.page)

\* the list handed to PoseGrid
FeedPoses(f) ==
    IF f.page = 1 THEN f.data.poses ELSE f.allPoses \o f.data.poses

\* the state after the poses page and its search bar have mounted
Mounted ==
    /\ api = ApiIdle
    /\ query = <<>>
    /\ vectorSearchMode = "dynamic"
    /\ vectorServiceStatus = [available |-> TRUE, message |-> "unchecked",
                               lastChecked |-> "undefined"]
    /\ searchInfo = NullInfo
    /\ isLoading = FALSE
    /\ isVectorLoading = FALSE
    /\ showSuggestions = FALSE
    /\ hvs = HvsIdle
    /\ net = <<>>
    /\ page = PageInit
    /\ suggestions = <<>>
    /\ pageRun = [pending |-> TRUE, inflight |-> <<>>, shown |-> FALSE, shownFor |-> <<>>]
    /\ home = HomeInit
    /\ plan = PlanIdle
    /\ selectedIndex = -1
    /\ feed = FeedInit
    /\ proxy = ProxyIdle
    /\ store = StoreInit

Init ==
    /\ Mounted
    /\ failedProbes = [counting |-> FALSE, n |-> 0]

\* onChange of the input, and the effect that follows the change of query
Type(q) ==
    /\ ~isLoading
    /\ q # query
    /\ query' = q
    /\ showSuggestions' = TRUE
    /\ suggestions' = IF Len(q) > 0 THEN getLocalSuggestions(q) ELSE <<>>
    /\ selectedIndex' = -1
    /\ UNCHANGED <<api, vectorSearchMode, vectorServiceStatus, searchInfo, isLoading,
                   isVectorLoading, hvs, net, page, failedProbes, pageVars, plan, feed, proxy, store>>

\* onChange of the mode select
SelectMode(m) ==
    /\ m # vectorSearchMode
    /\ vectorSearchMode' = m
    /\ UNCHANGED <<api, query, vectorServiceStatus, searchInfo, isLoading, isVectorLoading,
                   showSuggestions, hvs, net, page, history, suggestions>>

\* handleSubmit: from the submit button (disabled while loading) or from Enter in
\* handleKeyDown while the suggestion list is shown
handleSubmit ==
    /\ \/ ~isLoading /\ ~isVectorLoading
       \/ ~isLoading /\ showSuggestions /\ Len(suggestions) > 0
    /\ showSuggestions' = FALSE
    /\ searchInfo' = NullInfo
    /\ page' = IF Trim(query) = <<>> THEN handleResetSearch(page)
               ELSE handleSearchSubmit(page, query)
    /\ UNCHANGED <<api, query, vectorSearchMode, vectorServiceStatus, isLoading,
                   isVectorLoading, hvs, net, history, suggestions>>

\* the refresh button: checkServiceStatus up to its await
ClickRefresh ==
    /\ CanIssue
    /\ net' = Append(net, Request(StatusProbeRoute, "refresh", "status", StatusProbeBody))
    /\ UNCHANGED <<api, query, vectorSearchMode, vectorServiceStatus, searchInfo, isLoading,
                   isVectorLoading, showSuggestions, hvs, page, history, suggestions>>

\* the vector search button: handleVectorSearch up to `await checkServiceStatus()`
ClickVectorSearch ==
    /\ ~isLoading /\ ~isVectorLoading
    /\ IF Trim(query) = <<>>
       THEN /\ page' = handleResetSearch(page)
            /\ hvs' = [HvsIdle EXCEPT !.pc = "done", !.query = query,
                                      !.steps = <<"onResetSearch">>]
            /\ UNCHANGED <<isVectorLoading, showSuggestions, net>>
       ELSE /\ CanIssue
            /\ isVectorLoading' = TRUE
            /\ showSuggestions' = FALSE
            /\ net' = Append(net, Request(StatusProbeRoute, "search", "status", StatusProbeBody))
            /\ hvs' = [HvsIdle EXCEPT !.pc = "probe", !.query = query, !.mode = vectorSearchMode,
                                      !.steps = <<"health_check">>]
            /\ UNCHANGED page
    /\ UNCHANGED <<api, query, vectorSearchMode, vectorServiceStatus, searchInfo, isLoading,
                   history, suggestions>>

\* what the browser sees of a route handler's result
Wire(resp) == [resp EXCEPT !.threw = FALSE, !.error = ""]

\* how a fetch() of the browser settles: it rejects (the Next.js server is not reached),
\* or the route handler runs against some behaviour of the backend and answers
\* backend behaviours the browser flows are run against: unreachable, error status,
\* no answer within the timeout, and the answers with a result list that is consistent
\* with service_available
BrowserBackendOutcomes ==
    {o \in BackendOutcomes :
        /\ o.kind # "bad_json"
        /\ o.kind = "ok" => /\ o.data.hasPoses
                            /\ o.data.service_available = "false" => o.data.poses = <<>>}

FetchOutcomes ==
    {[reached |-> FALSE, backend |-> [kind |-> "network_error", data |-> NoBody, latency |-> 0]]}
    \cup {[reached |-> TRUE, backend |-> o] : o \in BrowserBackendOutcomes}

\* the fetch of request r once it has settled with outcome f
Settle(r, f) ==
    IF f.reached
    THEN [state |-> "answered", resp |-> Wire(RoutePOST(r.route, r.req, f.backend)),
          timedOut |-> TimedOut(f.backend, DefaultTimeout)]
    ELSE [state |-> "rejected", resp |-> NoResponse, timedOut |-> FALSE]

\* checkServiceStatus after its await: the cached status is overwritten with the result
CachedStatus(status) ==
    [available |-> status.available, message |-> status.message, lastChecked |-> "Date"]

\* the probe whose fetch settled as r did not find the service available: the fetch was
\* rejected, the answer has an error status, or it is not marked service_available
ProbeFailed(r) ==
    \/ r.state = "rejected"
    \/ ~Ok(r.resp)
    \/ r.resp.body.service_available # "true"

\* the count of failed probes in a row after one more result has been stored
CountProbe(c, failed) ==
    IF ~c.counting THEN c
    ELSE [c EXCEPT !.n = IF ~failed THEN 0 ELSE IF @ < 3 THEN @ + 1 ELSE @]

\* the refresh button's checkServiceStatus completes
RefreshReturn(i, f) ==
    /\ net[i].owner = "refresh"
    /\ vectorServiceStatus' = CachedStatus(checkVectorSearchStatus(Settle(net[i], f)))
    /\ failedProbes' = CountProbe(failedProbes, ProbeFailed(Settle(net[i], f)))
    /\ net' = WithoutProbe(i)
    /\ UNCHANGED <<api, query, vectorSearchMode, searchInfo, isLoading, isVectorLoading,
                   showSuggestions, hvs, page, suggestions, pageVars, plan,
                   selectedIndex, feed, proxy, store>>

\* the query text handed to onSearch: the `query` of the render that was clicked
FallbackQuery(h) == h.query

\* isVectorLoading after the finally block
FinallyLoading == FALSE

\* the step handleVectorSearch takes on the status it awaited
AfterHealthCheck_always(status) == "attempt"

AfterHealthCheck(status) == IF ~status.available THEN "fallback" ELSE "attempt"

\* body of the request of handlePaginatedSearch / handleDynamicSearch
AttemptRoute(mode) == IF mode = "paginated" THEN RoutePaginated ELSE RouteEnhanced

AttemptBody(mode) ==
    IF mode = "paginated"
    THEN [parses |-> TRUE, hasQuery |-> TRUE, page |-> 0, page_size |-> PaginatedPageSize]
    ELSE [parses |-> TRUE, hasQuery |-> TRUE, page |-> 0, page_size |-> 0]

\* the status that `await checkServiceStatus()` returns to handleVectorSearch
AwaitedStatus(i, f) == checkVectorSearchStatus(Settle(net[i], f))

\* what the status check reported, as a step of the search
Health(status) == IF status.available THEN "health_true" ELSE "health_false"

\* handleVectorSearch resumes after `await checkServiceStatus()`: on an unavailable
\* service it sets searchInfo, calls onSearch(query) and returns through the finally
\* block; otherwise it starts handlePaginatedSearch / handleDynamicSearch up to its await
SearchProbeReturn(i, f) ==
    /\ net[i].owner = "search"
    /\ hvs.pc = "probe"
    /\ UNCHANGED <<api, query, vectorSearchMode, isLoading, showSuggestions, suggestions,
                   pageVars, plan, selectedIndex, feed, proxy, store>>
    /\ \/ /\ net' = WithoutProbe(i)
          /\ isVectorLoading' = FinallyLoading
          /\ LET status == AwaitedStatus(i, f)
             IN /\ AfterHealthCheck(status) = "fallback"
                /\ vectorServiceStatus' = CachedStatus(status)
                /\ failedProbes' = CountProbe(failedProbes, ProbeFailed(Settle(net[i], f)))
                /\ searchInfo' = UnavailableInfo(hvs.query, status)
                /\ page' = handleSearchSubmit(page, FallbackQuery(hvs))
                /\ hvs' = [hvs EXCEPT !.pc = "done", !.mode = HvsIdle.mode,
                                      !.timedOut = Settle(net[i], f).timedOut,
                                      !.steps = @ \o <<Health(status), "onSearch">>,
                                      !.onSearchArgs = Append(@, FallbackQuery(hvs))]
       \/ /\ net' = Append(WithoutProbe(i),
                            Request(AttemptRoute(hvs.mode), "search", "search",
                                    AttemptBody(hvs.mode)))
          /\ UNCHANGED <<searchInfo, page, isVectorLoading>>
          /\ LET status == AwaitedStatus(i, f)
             IN /\ AfterHealthCheck(status) = "attempt"
                /\ vectorServiceStatus' = CachedStatus(status)
                /\ failedProbes' = CountProbe(failedProbes, ProbeFailed(Settle(net[i], f)))
                /\ hvs' = [hvs EXCEPT !.pc = "attempt",
                                      !.timedOut = Settle(net[i], f).timedOut,
                                      !.steps = @ \o <<Health(status), "vector_attempt">>]

\* the try block of handleVectorSearch once handlePaginatedSearch / handleDynamicSearch
\* has returned data: the SearchInfo they set and the callback invoked
TryBlock_again(q, data) ==
    [info |-> ResultInfo(Trim(q), data),
     calls |-> IF HasResults(data) THEN <<"onAISearchResult">> ELSE <<"onSearch", "onSearch">>,
     threw |-> FALSE]

TryBlock(q, data) ==
    [info |-> ResultInfo(Trim(q), data),
     calls |-> IF HasResults(data) THEN <<"onAISearchResult">> ELSE <<"onSearch">>,
     threw |-> FALSE]

\* the catch block of handleVectorSearch: the SearchInfo it sets and the callback invoked;
\* it does not rethrow
CatchBlock_rethrow(q, msg) ==
    [info |-> FailedInfo(q, msg), calls |-> <<>>, threw |-> TRUE]

CatchBlock(q, msg) ==
    [info |-> FailedInfo(q, msg), calls |-> <<"onSearch">>, threw |-> FALSE]

ApplyCall(pg, call, q, poses) ==
    IF call = "onSearch" THEN handleSearchSubmit(pg, q) ELSE handleAISearchResult(pg, poses)

RECURSIVE ApplyCalls(_, _, _, _)
ApplyCalls(pg, calls, q, poses) ==
    IF calls = <<>> THEN pg
    ELSE ApplyCalls(ApplyCall(pg, Head(calls), q, poses), Tail(calls), q, poses)

\* handleVectorSearch resumes after the await of handlePaginatedSearch / handleDynamicSearch
AttemptReturn(i, f) ==
    /\ net[i].owner = "search"
    /\ hvs.pc = "attempt"
    /\ UNCHANGED <<api, query, vectorSearchMode, vectorServiceStatus, isLoading,
                   showSuggestions, history, suggestions>>
    /\ isVectorLoading' = FinallyLoading
    /\ net' = Without(i)
    /\ LET res == handleModeSearch(Settle(net[i], f))
           end == IF res.threw THEN CatchBlock(hvs.query, res.error)
                  ELSE TryBlock(hvs.query, res.value)
           nSearch == Len(SelectSeq(end.calls, LAMBDA c : c = "onSearch"))
           nAI == Len(SelectSeq(end.calls, LAMBDA c : c = "onAISearchResult"))
       IN /\ searchInfo' = end.info
          /\ page' = ApplyCalls(page, end.calls, FallbackQuery(hvs), res.value.poses)
          /\ hvs' = [hvs EXCEPT
                        !.pc = "done",
                        !.mode = HvsIdle.mode,
                        !.timedOut = Settle(net[i], f).timedOut,
                        !.steps = @ \o end.calls,
                        !.onSearchArgs = @ \o [k \in 1..nSearch |-> FallbackQuery(hvs)],
                        !.onAIArgs = @ \o [k \in 1..nAI |-> res.value.poses],
                        !.threw = end.threw]

Next ==
    \/ \E q \in Queries : Type(q)
    \/ \E m \in {"dynamic", "paginated"} : SelectMode(m)
    \/ handleSubmit
    \/ ClickRefresh
    \/ ClickVectorSearch
    \/ \E i \in DOMAIN net, f \in FetchOutcomes : RefreshReturn(i, f)
    \/ \E i \in DOMAIN net, f \in FetchOutcomes : SearchProbeReturn(i, f)
    \/ \E i \in DOMAIN net, f \in FetchOutcomes : AttemptReturn(i, f)

Spec == Init /\ [][Next]_vars

\* a step of the running handleVectorSearch: the fetch it awaits settles and it resumes
RunStep ==
    \E i \in DOMAIN net, f \in FetchOutcomes : SearchProbeReturn(i, f) \/ AttemptReturn(i, f)

\* every fetch settles (the route handlers answer within the proxy timeout, the browser
\* reports an unreachable server) and the event loop runs the continuation that awaits it
Fairness == WF_vars(RunStep)

FairSpec == Spec /\ Fairness

\* the API routes under every request and every behaviour of the backend
ApiNext ==
    \/ \E route \in Routes, req \in RequestBodies, o \in BackendOutcomes :
          ApiReceive(route, req, o)
    \/ \E route \in GetRoutes, req \in GetRequests, o \in BackendOutcomes :
          ApiGet(route, req, o)
    \/ ApiRespond
    \/ ApiClose

ApiSpec == Init /\ [][ApiNext]_vars

-----------------------------------------------------------------------------
(* The planner run against indexes of several shapes                       *)

TargetCounts == {2, 20, 30}

\* indexes with up to 40 poses above the floor in up to 3 copies each, and one whose
\* stream is a long run of copies of a single pose
Indexes ==
    [good : {0, 1, 5, 20, 25, 40}, copies : {1, 2, 3}, low : {0, 10}]
        \cup {[good |-> 1, copies |-> 70, low |-> 0]}

\* plan(query_vector, target_count, min_similarity, DYNAMIC) starts with a pool of
\* 2 x target_count
PlanStart(ix, target) ==
    /\ plan.pc = "idle"
    /\ plan' = [PlanIdle EXCEPT !.pc = "query", !.index = ix, !.target = target,
                                !.pool = IF 2 * target > PoolCeiling THEN PoolCeiling
                                         ELSE 2 * target]
    /\ UNCHANGED frontVars

\* one pass: the pool is requested from the index and filtered
PlanQuery ==
    /\ plan.pc = "query"
    /\ plan' = [plan EXCEPT !.pc = "filtered",
                            !.survivors = Survivors(TopCandidates(plan.index, plan.pool),
                                                    MinSimilarity)]
    /\ UNCHANGED frontVars

\* after a pass: enough survivors, or nothing to gain from widening, ends the run;
\* otherwise the pool is widened for the next pass
PlanDecide ==
    /\ plan.pc = "filtered"
    /\ IF \/ Len(plan.survivors) >= plan.target
          \/ plan.pool >= PoolCeiling
          \/ plan.widenings >= MaxWidenings
          \/ NoMoreRelevant(TopCandidates(plan.index, plan.pool), plan.pool, MinSimilarity)
       THEN plan' = [plan EXCEPT !.pc = "done",
                                 !.results = TakeResults(plan.survivors, plan.target)]
       ELSE plan' = [plan EXCEPT !.pc = "query", !.pool = Widen(plan.pool),
                                 !.widenings = @ + 1]
    /\ UNCHANGED frontVars

\* plan(query_vector, page_size, min_similarity, PAGINATED) for a page: a single pass
PlanPaginated(ix, pageNo, page_size) ==
    /\ plan.pc = "idle"
    /\ plan' = [PlanIdle EXCEPT !.pc = "window", !.index = ix, !.target = page_size,
                                !.pool = pageNo * page_size,
                                !.results = PlanWindow(ix, pageNo, page_size)]
    /\ UNCHANGED frontVars

\* the outcome is returned
PlanReturn ==
    /\ plan.pc \in {"done", "window"}
    /\ plan' = PlanIdle
    /\ UNCHANGED frontVars

PlannerNext ==
    \/ \E ix \in Indexes, target \in TargetCounts : PlanStart(ix, target)
    \/ \E ix \in Indexes, pageNo \in {1, 2}, page_size \in {10, PaginatedPageSize} :
          PlanPaginated(ix, pageNo, page_size)
    \/ PlanQuery
    \/ PlanDecide
    \/ PlanReturn

\* the loop is CPU-bound and does not suspend: a run that can step does step
PlannerSpec == Init /\ [][PlannerNext]_vars /\ WF_vars(PlanQuery \/ PlanDecide)

-----------------------------------------------------------------------------
(* The poses page on its own: its callbacks are called with any argument   *)
(* the search bar can pass, its effect and its fetches run.                *)

MaxPage == 3

\* what the backend answers GET /api/v1/poses with: the data of the other endpoints,
\* and a full page of PerPage poses
FullPage == [NoBody EXCEPT !.kind = "object", !.hasPoses = TRUE,
                           !.poses = [k \in 1..PerPage |-> k], !.hasTotal = TRUE,
                           !.total = PerPage]

PosesBackendOutcomes ==
    {o \in BackendOutcomes : o.kind = "ok" => o.data.service_available # "false"}
    \cup {[kind |-> "ok", data |-> FullPage, latency |-> 0]}

\* how the page's fetch of /api/poses settles: rejected, or answered by the route
PosesFetchOutcomes ==
    {[reached |-> FALSE, backend |-> [kind |-> "network_error", data |-> NoBody, latency |-> 0]]}
    \cup {[reached |-> TRUE, backend |-> o] : o \in PosesBackendOutcomes}

\* the values the search bar may hand to onAISearchResult
AIPosesValues == {Undefined} \cup {List(l) : l \in PoseLists}

CanFetch == Len(pageRun.inflight) < MaxInFlight

PageWithout(i) ==
    SubSeq(pageRun.inflight, 1, i - 1) \o SubSeq(pageRun.inflight, i + 1, Len(pageRun.inflight))

\* the search bar calls onSearch(q), which it does for texts that are not blank
CallOnSearch(q) ==
    /\ Trim(q) # <<>>
    /\ page' = handleSearchSubmit(page, q)
    /\ pageRun' = [pageRun EXCEPT !.pending = TRUE]
    /\ UNCHANGED <<barVars, home>>

\* the search bar calls onAISearchResult(v): handleAISearchResult applies `aiPoses || []`
CallOnAISearchResult(v) ==
    /\ page' = handleAISearchResult(page, OrEmpty(v))
    /\ pageRun' = [pageRun EXCEPT !.pending = @ \/ DepsChanged(page, page'), !.shown = FALSE,
                                  !.shownFor = <<>>]
    /\ UNCHANGED <<barVars, home>>

\* the search bar calls onResetSearch(): the state updates, and fetchPoses(true) up to
\* its await
CallOnResetSearch ==
    /\ CanFetch
    /\ page' = handleResetSearch(page)
    /\ pageRun' = [pending |-> TRUE, shown |-> FALSE, shownFor |-> <<>>,
                   inflight |-> Append(pageRun.inflight,
                                       PosesFetch(TRUE, page.page, page.filtersSearch))]
    /\ UNCHANGED <<barVars, home>>

\* the effect on [filters, fetchPoses, searchType], due after the mount and after every
\* render that changed one of them: fetchPoses(true) up to its await unless an AI or
\* vector result is shown
PageEffect ==
    /\ pageRun.pending
    /\ IF page.searchType \in {"ai", "vector"}
       THEN /\ pageRun' = [pageRun EXCEPT !.pending = FALSE]
            /\ UNCHANGED page
       ELSE /\ CanFetch
            /\ page' = [page EXCEPT !.loading = TRUE]
            /\ pageRun' = [pageRun EXCEPT
                              !.pending = FALSE,
                              !.inflight = Append(@, PosesFetch(TRUE, page.page, page.filtersSearch))]
    /\ UNCHANGED <<barVars, home>>

\* the scroll handler's loadMore: fetchPoses(false) up to its await
loadMore ==
    /\ ~page.loading /\ page.hasMore /\ page.searchType = "normal"
    /\ ~page.isAISearch
    /\ page.page < MaxPage
    /\ CanFetch
    /\ page' = [page EXCEPT !.loading = FALSE]
    /\ pageRun' = [pageRun EXCEPT
                      !.inflight = Append(@, PosesFetch(FALSE, page.page, page.filtersSearch))]
    /\ UNCHANGED <<barVars, home>>

\* fetchPoses resumes after `await fetch`
fetchPosesReturn(i, f) ==
    /\ pageRun.inflight[i].owner = "page"
    /\ LET r == pageRun.inflight[i]
           resp == GET_poses(NoRequest, f.backend)
           installs == f.reached /\ Ok(resp) /\ resp.body.kind = "object"
       IN /\ page' = IF installs THEN fetchPosesThen(page, r.reset, resp.body)
                     ELSE fetchPosesFinally(page)
          /\ pageRun' = [pending |-> pageRun.pending \/ DepsChanged(page, page'),
                         inflight |-> PageWithout(i),
                         shown |-> pageRun.shown \/ (installs /\ r.reset),
                         shownFor |-> IF installs /\ r.reset THEN r.search
                                      ELSE pageRun.shownFor]
    /\ UNCHANGED <<barVars, home>>

\* what the earlier search bar's request to the AI database search ends with
HomeFetchOutcomes ==
    {[state |-> "rejected", status |-> 0, data |-> NoBody],
     [state |-> "answered", status |-> 500, data |-> NoBody]}
    \cup {[state |-> "answered", status |-> 200, data |-> d] : d \in BackendData}

\* handleAiDatabaseSearch of the earlier search bar up to its await
HomeAiDatabaseSearch(q) ==
    /\ Trim(q) # <<>>
    /\ CanFetch
    /\ pageRun' = [pageRun EXCEPT !.inflight = Append(@, [owner |-> "home", reset |-> FALSE,
                                                          pageNo |-> 0, search |-> q])]
    /\ UNCHANGED <<barVars, page, home>>

\* handleAiDatabaseSearch after its await: onAISearchResult(data.poses) for an ok answer,
\* onSearch(query) from the catch block
HomeAiDatabaseReturn(i, f) ==
    /\ pageRun.inflight[i].owner = "home"
    /\ home' = CASE f.state = "rejected"      -> Home_handleSearchSubmit(home, pageRun.inflight[i].search)
                 [] f.status # 200            -> home
                 [] f.data.kind # "object"    -> Home_handleSearchSubmit(home, pageRun.inflight[i].search)
                 [] OTHER -> Home_handleAISearchResult(home, PosesField(f.data))
    /\ pageRun' = [pageRun EXCEPT !.inflight = PageWithout(i)]
    /\ UNCHANGED <<barVars, page>>

PageNext ==
    \/ \E q \in Queries : CallOnSearch(q)
    \/ \E v \in AIPosesValues : CallOnAISearchResult(v)
    \/ CallOnResetSearch
    \/ PageEffect
    \/ loadMore
    \/ \E q \in Queries : HomeAiDatabaseSearch(q)
    \/ \E i \in DOMAIN pageRun.inflight :
          \/ \E f \in PosesFetchOutcomes : fetchPosesReturn(i, f)
          \/ \E f \in HomeFetchOutcomes : HomeAiDatabaseReturn(i, f)

PageSpec == Init /\ [][PageNext]_vars

\* readers and the writer of the index store in every interleaving
StoreNext ==
    \/ ReloadBuild
    \/ ReloadSwap
    \/ \E v \in 0..MaxReloads : StoreCollect(v)
    \/ \E r \in Readers : ReadStart(r) \/ ReadLookup(r) \/ ReadFinish(r)

StoreSpec == Init /\ [][StoreNext]_vars

\* one call of proxyToBackendWithTimeout under every behaviour of the backend
ProxyNext ==
    \/ \E method \in {"GET", "POST"}, b \in ProxyBehaviours, timeout \in ProxyTimeouts :
          ProxyStart(method, b, timeout)
    \/ ProxyStep

\* the event loop runs every continuation and every timer that is due
ProxySpec == Init /\ [][ProxyNext]_vars /\ WF_vars(ProxyStep)

\* the totals the search API may report
FeedTotals == {0, 20, 45}

\* the answer of searchAPI.searchPoses for page p of a result of `total` poses: the
\* poses are numbered in result order
FeedAnswer(q, p, total) ==
    LET first == (p - 1) * PerPage + 1
        last == IF p * PerPage < total THEN p * PerPage ELSE total
    IN [defined |-> TRUE, query |-> q, page |-> p, total |-> total,
        poses |-> [k \in 1..(IF last >= first THEN last - first + 1 ELSE 0) |-> first + k - 1]]

\* handleSearch of app/page.tsx
Feed_handleSearch(q) ==
    /\ Trim(q) # <<>>
    /\ feed' = [feed EXCEPT !.searchQuery = q, !.page = 1, !.allPoses = <<>>]
    /\ UNCHANGED <<api, page, barPageVars>>

\* handleSubmit of SearchBar.tsx up to its await: nothing happens for a blank query
SearchBar_handleSubmit(q) ==
    /\ feed.bar.pc = "idle"
    /\ Trim(q) # <<>>
    /\ feed' = [feed EXCEPT !.bar = [pc |-> "awaiting", query |-> q, isLoading |-> TRUE,
                                     submitted |-> TRUE, handed |-> 0]]
    /\ UNCHANGED <<api, page, barPageVars>>

\* handleSubmit after its await: onSearch(query) for an ok answer whose data can be read
\* and from the catch block, nothing for an answer that is not ok, and finally
\* setIsLoading(false). onSearch is handleSearch of Home
SearchBar_handleSubmitReturn(f) ==
    /\ feed.bar.pc = "awaiting"
    /\ LET calls == ~(f.state = "answered" /\ f.status # 200)
       IN feed' = IF calls
                  THEN [feed EXCEPT !.searchQuery = feed.bar.query, !.page = 1,
                                    !.allPoses = <<>>,
                                    !.bar = [@ EXCEPT !.pc = "idle", !.isLoading = FALSE,
                                                      !.handed = @ + 1]]
                  ELSE [feed EXCEPT !.bar = [@ EXCEPT !.pc = "idle", !.isLoading = FALSE]]
    /\ UNCHANGED <<api, page, barPageVars>>

\* PoseGrid calls onLoadMore while its sentinel is in view, hasMore holds and loading
\* (isLoading && page === 1) does not; handleLoadMore advances page when isLoading is
\* false, data is there and page * 20 < data.total
handleLoadMore ==
    /\ feed.data.defined /\ feed.page * PerPage < feed.data.total
    /\ ~(FeedLoading(feed) /\ feed.page = 1)
    /\ ~FeedLoading(feed)
    /\ feed.page < MaxPage
    /\ feed' = [feed EXCEPT !.page = @ + 1]
    /\ UNCHANGED <<api, page, barPageVars>>

\* useSWR resolves the request of the current key
useSearchResolves(total) ==
    /\ FeedLoading(feed)
    /\ feed' = [feed EXCEPT !.data = FeedAnswer(feed.searchQuery, feed.page, total)]
    /\ UNCHANGED <<api, page, barPageVars>>

\* a render of Home: setAllPoses(poses) in the body of the component. The list is
\* followed up to the length of MaxPage + 1 pages
FeedRender ==
    /\ feed.data.defined /\ feed.page > 1
    /\ Len(feed.allPoses) < Len(FeedPoses(feed))
    /\ Len(feed.allPoses) <= MaxPage * PerPage
    /\ feed' = [feed EXCEPT !.allPoses = FeedPoses(feed)]
    /\ UNCHANGED <<api, page, barPageVars>>

FeedNext ==
    \/ \E q \in Queries \cup {<<"hai">>} : Feed_handleSearch(q)
    \/ \E q \in Queries \cup {<<"hai">>} : SearchBar_handleSubmit(q)
    \/ \E f \in HomeFetchOutcomes : SearchBar_handleSubmitReturn(f)
    \/ handleLoadMore
    \/ \E total \in FeedTotals : useSearchResolves(total)
    \/ FeedRender

FeedSpec == Init /\ [][FeedNext]_vars

\* the characters of the suggestion texts, and the blank
SuggestionChars ==
    UNION {{c.text[k] : k \in DOMAIN c.text} : c \in {commonSuggestions[n] : n \in DOMAIN commonSuggestions}}
        \cup {" "}

MaxPrefixLen == 2

\* a suggestion is taken: setQuery(text), onSearch(text), setShowSuggestions(false), and
\* the effect that follows the change of query; selectedIndex is left as it is
TakeSuggestion(text) ==
    /\ query' = text
    /\ suggestions' = getLocalSuggestions(text)
    /\ page' = handleSearchSubmit(page, text)
    /\ showSuggestions' = FALSE
    /\ UNCHANGED <<api, vectorSearchMode, vectorServiceStatus, searchInfo, isLoading,
                   isVectorLoading, hvs, net, history>>

\* handleKeyDown: returns at once unless the list is shown and not empty. Enter with an
\* index at or past the end of the list reads suggestions[selectedIndex] as undefined,
\* and `selected.text` throws before any state is set
handleKeyDown(key) ==
    /\ showSuggestions /\ Len(suggestions) > 0
    /\ CASE key = "ArrowDown" ->
               /\ selectedIndex' = IF selectedIndex < Len(suggestions) - 1
                                   THEN selectedIndex + 1 ELSE selectedIndex
               /\ UNCHANGED <<api, query, vectorSearchMode, vectorServiceStatus, searchInfo,
                              isLoading, isVectorLoading, showSuggestions, hvs, net, page,
                              suggestions, failedProbes, pageVars, plan, feed, proxy, store>>
         [] key = "ArrowUp" ->
               /\ selectedIndex' = IF selectedIndex > 0 THEN selectedIndex - 1 ELSE -1
               /\ UNCHANGED <<api, query, vectorSearchMode, vectorServiceStatus, searchInfo,
                              isLoading, isVectorLoading, showSuggestions, hvs, net, page,
                              suggestions, failedProbes, pageVars, plan, feed, proxy, store>>
         [] key = "Enter" ->
               IF selectedIndex >= 0
               THEN IF selectedIndex < Len(suggestions)
                    THEN TakeSuggestion(suggestions[selectedIndex + 1].text)
                    ELSE UNCHANGED vars
               ELSE handleSubmit
         [] key = "Escape" ->
               /\ showSuggestions' = FALSE
               /\ selectedIndex' = -1
               /\ UNCHANGED <<api, query, vectorSearchMode, vectorServiceStatus, searchInfo,
                              isLoading, isVectorLoading, hvs, net, page, suggestions,
                              failedProbes, pageVars, plan, feed, proxy, store>>

\* a click on the k-th suggestion of the list shown
handleSuggestionClick(k) ==
    /\ showSuggestions
    /\ k \in DOMAIN suggestions
    /\ TakeSuggestion(suggestions[k].text)

\* onFocus of the input
Focus ==
    /\ showSuggestions' = TRUE
    /\ UNCHANGED <<api, query, vectorSearchMode, vectorServiceStatus, searchInfo, isLoading,
                   isVectorLoading, hvs, net, page, suggestions, history>>

\* the input box alone: a character is typed after the text or the last one is deleted,
\* and the suggestions follow the text
SuggestNext ==
    \/ \E c \in SuggestionChars : Len(query) < MaxPrefixLen /\ Type(Append(query, c))
    \/ Len(query) > 0 /\ Type(SubSeq(query, 1, Len(query) - 1))
    \/ \E key \in {"ArrowDown", "ArrowUp", "Enter", "Escape"} : handleKeyDown(key)
    \/ \E k \in 1..5 : handleSuggestionClick(k)
    \/ Focus

SuggestSpec == Init /\ [][SuggestNext]_vars

\* the browser flows with the results of the status probes counted
HealthInit ==
    /\ Mounted
    /\ failedProbes = [counting |-> TRUE, n |-> 0]

HealthSpec == HealthInit /\ [][Next]_vars

-----------------------------------------------------------------------------
(* Properties *)

Responded(routes) == api.pc = "responded" /\ api.route \in routes

\* the degraded answer: HTTP 200, no exception out of the handler, an empty result
\* marked unavailable, with a message
Degraded(resp) ==
    /\ ~resp.threw
    /\ resp.status = 200
    /\ resp.body.service_available = "false"
    /\ resp.body.message # ""

\* C1: for every failure of the proxied backend call (network error, non-2xx, unparsable
\* body, abort after the timeout) the POST handlers of /api/search/vector and
\* /api/search/vector/enhanced answer HTTP 200 with poses = [], total = 0,
\* service_available = false and a non-empty message, and let no exception escape
C1_VectorRoutesDegrade ==
    (Responded({RouteVector, RouteEnhanced}) /\ BackendFailed(api))
        => /\ Degraded(api.resp)
           /\ api.resp.body.hasPoses /\ api.resp.body.poses = <<>>
           /\ api.resp.body.hasTotal /\ api.resp.body.total = 0

C1_Witness ==
    /\ Responded({RouteEnhanced})
    /\ TimedOut(api.outcome, DefaultTimeout)
    /\ api.resp.status = 200
    /\ api.resp.body.service_available = "false"

\* body?.page || 1 and body?.page_size || 20
OrDefault(v, d) == IF v # 0 THEN v ELSE d

\* C2: when the backend call of POST /api/search/vector/paginated fails, the handler
\* answers HTTP 200 with poses = [], service_available = false, a message, and
\* search_info carrying the requested page and page_size (defaults 1 and 20), and the
\* failure path does not throw
C2_PaginatedRouteDegrades ==
    (Responded({RoutePaginated}) /\ BackendFailed(api))
        => /\ Degraded(api.resp)
           /\ api.resp.body.hasPoses /\ api.resp.body.poses = <<>>
           /\ api.resp.body.search_info.present
           /\ api.resp.body.search_info.page = OrDefault(api.req.page, DefaultPage)
           /\ api.resp.body.search_info.page_size = OrDefault(api.req.page_size, DefaultPageSize)

\* C3: when the backend call fails, the POST handlers of /api/search/ai-database and
\* /api/search/ai answer HTTP 200 with service_available = false and a message
C3_AIRoutesDegrade ==
    (Responded({RouteAIDatabase, RouteAI}) /\ BackendFailed(api)) => Degraded(api.resp)

\* handleVectorSearch is between its start and its end
Running == hvs.pc \in {"probe", "attempt"}

\* handleVectorSearch has ended for a non-blank query
Ended == hvs.pc = "done" /\ hvs.steps[1] = "health_check"

\* this step is the end of a handleVectorSearch for a non-blank query
Ends == Running /\ hvs'.pc = "done"

\* C4: every handleVectorSearch with a non-blank query terminates without propagating
\* an exception, whatever the status probe and the vector endpoint do; it ends having
\* called exactly one of onAISearchResult and onSearch, with isVectorLoading false
C4_VectorSearchAlwaysEnds ==
    /\ [](Ended => /\ ~hvs.threw
                   /\ Len(hvs.onSearchArgs) + Len(hvs.onAIArgs) = 1
                   /\ ~isVectorLoading)
    /\ (Running ~> Ended)

C4_Witness ==
    /\ Ended
    /\ hvs.steps = <<"health_check", "health_true", "vector_attempt", "onSearch">>
    /\ searchInfo.search_intent = IntentFailedFellBack

\* a request of the vector attempt is in flight
AttemptInFlight ==
    \E i \in DOMAIN net : net[i].route \in {RouteEnhanced, RoutePaginated}

Occurs(step) == \E k \in DOMAIN hvs.steps : hvs.steps[k] = step

\* C5: within one vector search the steps are health check, then vector attempt, then
\* delivery or fallback: a request to the paginated / enhanced endpoint is issued only
\* after the health check of the same search reported available, and when it reported
\* unavailable no such request is issued and onSearch is invoked instead
C5_HealthCheckBeforeAttempt ==
    /\ \A k \in DOMAIN hvs.steps :
          hvs.steps[k] = "vector_attempt"
              => k = 3 /\ hvs.steps[1] = "health_check" /\ hvs.steps[2] = "health_true"
    /\ AttemptInFlight => (hvs.pc = "attempt" /\ Occurs("health_true"))
    /\ hvs.pc = "attempt" => Occurs("vector_attempt")
    /\ Occurs("health_false")
          => /\ ~Occurs("vector_attempt")
             /\ ~AttemptInFlight
             /\ hvs.steps = <<"health_check", "health_false", "onSearch">>
             /\ hvs.onSearchArgs = <<hvs.query>>

C5_Witness ==
    /\ Occurs("health_false")
    /\ hvs.pc = "done"
    /\ ~vectorServiceStatus.available
    /\ page.searchType = "normal"

\* C6: during a search request the health check only reads the cached status: no
\* search request performs or waits for a live probe before the vector attempt starts
C6_HealthCheckReadsCache ==
    \A i \in DOMAIN net : ~(net[i].owner = "search" /\ net[i].purpose = "status")

\* the endpoints that run a vector search for the query in the body
VectorSearchRoutes == {RouteVector, RouteEnhanced, RoutePaginated}

\* C7: a status check is cheap: checking the status never sends a search query to a
\* vector search endpoint
C7_StatusCheckSendsNoQuery ==
    \A i \in DOMAIN net :
        net[i].purpose = "status"
            => ~(net[i].route \in VectorSearchRoutes /\ net[i].req.hasQuery)

\* the SearchInfo says that the search fell back to normal search, and why
SaysFallback(info) ==
    /\ ~info.isNull
    /\ info.ai_explanation # ""
    /\ info.search_intent \in {IntentDegraded, IntentUnavailableFellBack, IntentFailedFellBack}

\* C8: on every path of handleVectorSearch that ends in the fallback to normal search,
\* onSearch receives the user's original query text and searchInfo is left holding an
\* explanation that says the fallback happened and why
C8_FallbackIsExplained ==
    [][(Ends /\ hvs'.onSearchArgs # <<>>)
          => /\ hvs'.onSearchArgs = <<hvs.query>>
             /\ page'.searchQuery = hvs.query
             /\ SaysFallback(searchInfo')]_vars

\* C9: if the backend does not answer the vector path within the timeout, the attempt
\* is aborted and the request ends in normal mode with a non-empty explanation: the
\* page's searchType is 'normal', searchInfo.ai_explanation is non-empty, and nothing is
\* delivered as a vector result
C9_TimeoutEndsInNormalMode ==
    [][(Ends /\ hvs'.timedOut)
          => /\ page'.searchType = "normal"
             /\ ~searchInfo'.isNull /\ searchInfo'.ai_explanation # ""
             /\ hvs'.onAIArgs = <<>>
             /\ hvs'.onSearchArgs = <<hvs.query>>]_vars

C9_Witness ==
    /\ Ended
    /\ hvs.timedOut
    /\ Occurs("vector_attempt")
    /\ page.searchType = "normal"
    /\ searchInfo.search_intent \in {IntentDegraded, IntentFailedFellBack}

\* status probes in flight
ProbesInFlight == {i \in DOMAIN net : net[i].purpose = "status"}

\* this step is checkServiceStatus storing the result of the i-th request
Stores(i) ==
    /\ net[i].purpose = "status"
    /\ vectorServiceStatus'.lastChecked = "Date"
    /\ \/ net' = WithoutProbe(i)
       \/ /\ hvs.pc = "probe" /\ hvs'.pc = "attempt" /\ net[i].owner = "search"
          /\ SubSeq(net', 1, Len(net') - 1) = WithoutProbe(i)

\* this step overwrites the cached status with the result of a probe that started
\* before the probe whose result is stored
StoresStale == \E i \in DOMAIN net : net[i].stale /\ Stores(i)

\* C10: concurrent status refreshes coalesce: while a probe is in flight no second
\* probe request is issued, and the cached status is never overwritten by the result of
\* a probe that started earlier than the one whose result is already stored
C10_RefreshesCoalesce ==
    /\ [](Cardinality(ProbesInFlight) <= 1)
    /\ [][~StoresStale]_vars

\* C11: after three status probes in a row have failed, the cached availability is
\* false, and it stays false whatever else happens until the result of a probe that
\* found the service available is stored
C11_ThreeFailuresUnavailable ==
    failedProbes.n >= 3 => ~vectorServiceStatus.available

C11_Witness ==
    /\ failedProbes.n = 3
    /\ ~vectorServiceStatus.available
    /\ hvs.pc = "done"
    /\ net = <<>>

\* a text of white space only, the empty text included
Blank(q) == \A k \in DOMAIN q : q[k] = " "

\* handleSubmit or handleVectorSearch runs
SubmitsOrSearches == handleSubmit \/ ClickVectorSearch

\* the step calls onResetSearch and no other callback, and sends nothing
OnlyResets ==
    /\ net' = net
    /\ page' = handleResetSearch(page)
    /\ hvs' = hvs \/ (hvs'.steps = <<"onResetSearch">> /\ hvs'.pc = "done")
    /\ hvs'.onSearchArgs \in {hvs.onSearchArgs, <<>>}
    /\ hvs'.onAIArgs \in {hvs.onAIArgs, <<>>}
    /\ isVectorLoading' = isVectorLoading

\* C13: with a blank query (empty or white space only) handleSubmit and
\* handleVectorSearch send no status probe and no vector search request and call neither
\* onSearch nor onAISearchResult: they call onResetSearch and return
C13_BlankQueryOnlyResets ==
    [][(Blank(query) /\ SubmitsOrSearches) => OnlyResets]_vars

C13_Witness ==
    /\ query = <<" ">>
    /\ hvs.pc = "done"
    /\ hvs.steps = <<"onResetSearch">>
    /\ net = <<>>
    /\ page = handleResetSearch(page)

\* how often a step occurs in the current vector search
Times(step) == Cardinality({k \in DOMAIN hvs.steps : hvs.steps[k] = step})

\* the requests in flight that handleVectorSearch sent
SearchRequests == {k \in DOMAIN net : net[k].owner = "search"}

\* a step after which handleVectorSearch has one more request in flight, or has called
\* onSearch once more
SearchActs ==
    \/ Cardinality({k \in DOMAIN net' : net'[k].owner = "search"}) > Cardinality(SearchRequests)
    \/ /\ hvs'.steps # hvs.steps
       /\ hvs'.steps # <<>>
       /\ hvs'.steps[Len(hvs'.steps)] = "onSearch"

\* C14: normal search is the last strategy: one vector search started by the user causes
\* at most one status probe, at most one vector search request and at most one fallback
\* to onSearch, and once it has ended nothing of these happens until the user starts the
\* next vector search
C14_NormalSearchIsTerminal ==
    /\ [](/\ Times("health_check") <= 1
          /\ Times("vector_attempt") <= 1
          /\ Times("onSearch") <= 1
          /\ Cardinality(SearchRequests) <= 1
          /\ hvs.pc \in {"idle", "done"} => SearchRequests = {})
    /\ [][(hvs.pc \in {"idle", "done"} /\ (SearchActs \/ hvs' # hvs)) => ClickVectorSearch]_vars

C14_Witness ==
    /\ hvs.pc = "done"
    /\ hvs.steps = <<"health_check", "health_true", "vector_attempt", "onSearch">>
    /\ page.searchType = "normal"
    /\ net # <<>>

\* the numbers the numerals among ParamTexts stand for
Numerals == (<<"2">> :> 2) @@ (<<"1", "0">> :> 10)

\* the requested value of a parameter: its number, the default d when none was sent
Requested(p, d) == IF p.present /\ p.text # <<>> THEN Numerals[p.text] ELSE d

\* the request asks for a page and a page size, or leaves them out
AsksNumbers(req) ==
    /\ req.page.present /\ req.page.text # <<>> => req.page.text \in DOMAIN Numerals
    /\ req.per_page.present /\ req.per_page.text # <<>> => req.per_page.text \in DOMAIN Numerals

\* the backend of this invocation threw a network error, answered with an error status
\* or did not answer within 10 s
Unavailable(a) ==
    \/ a.outcome.kind \in {"network_error", "non_2xx"}
    \/ a.outcome.latency >= 10000

C16_CategoriesRouteFallsBack ==
    (Responded({RouteCategories, RouteCategoriesV1})
            /\ api.outcome.kind \in {"network_error", "non_2xx"})
        => /\ api.resp.status = 200
           /\ api.resp.body = DefaultCategoriesBody
           /\ Len(api.resp.body.items) = 5

\* the UTF-16 code unit of each character of the suggestion texts
CodeUnit ==
    ("qiao" :> 20431) @@ ("pi" :> 30382) @@ ("ke" :> 21487) @@ ("ai" :> 29233) @@
    ("ka" :> 21654) @@ ("fei" :> 21857) @@ ("ting" :> 21381) @@ ("pai" :> 25293) @@
    ("zhao" :> 29031) @@ ("zuo" :> 22352) @@ ("zi" :> 23039) @@ ("xie" :> 20889) @@
    ("zhen" :> 30495) @@ ("hu" :> 25143) @@ ("wai" :> 22806) @@ ("ren" :> 20154) @@
    ("xiang" :> 20687) @@ ("qing" :> 24773) @@ ("lv" :> 20387) @@ ("jie" :> 34903) @@
    ("tou" :> 22836) @@ ("she" :> 25668) @@ ("ying" :> 24433) @@ ("shi" :> 23460) @@
    ("nei" :> 20869) @@ ("shang" :> 21830) @@ ("wu" :> 21153) @@ ("xing" :> 24418) @@
    ("xiang4" :> 35937) @@ (" " :> 32)

\* text a comes before text b in the order of JavaScript strings
RECURSIVE TextBefore(_, _)
TextBefore(a, b) ==
    IF a = <<>> THEN b # <<>>
    ELSE IF b = <<>> THEN FALSE
    ELSE IF Head(a) # Head(b) THEN CodeUnit[Head(a)] < CodeUnit[Head(b)]
    ELSE TextBefore(Tail(a), Tail(b))

SourcePriority == ("history" :> 3) @@ ("tag" :> 2) @@ ("synonym" :> 1)

\* suggestion a is ranked before suggestion b
RankedBefore(a, b) ==
    \/ a.weight > b.weight
    \/ /\ a.weight = b.weight
       /\ \/ SourcePriority[a.type] > SourcePriority[b.type]
          \/ a.type = b.type /\ TextBefore(a.text, b.text)

\* C17: the suggestions shown for a typed text are ordered by descending score, equal
\* scores by source priority history > tag > synonym and then by text; the list is a
\* function of the typed text
C17_SuggestionsRanked ==
    /\ \A i, j \in DOMAIN suggestions : i < j => RankedBefore(suggestions[i], suggestions[j])
    /\ Len(query) > 0 => suggestions = getLocalSuggestions(query)

\* text a begins with text b
StartsWith(a, b) == Len(b) <= Len(a) /\ SubSeq(a, 1, Len(b)) = b

\* C18: every suggestion shown for a typed text begins with that text, at most five
\* suggestions are shown, and no text is shown twice
C18_SuggestionsMatchPrefix ==
    /\ \A i \in DOMAIN suggestions : StartsWith(suggestions[i].text, query)
    /\ Len(suggestions) <= 5
    /\ \A i, j \in DOMAIN suggestions : suggestions[i].text = suggestions[j].text => i = j

\* C12: whatever searches, deliveries of AI / vector results, fallbacks, load-more events
\* and resets have happened, the result list of the page is a list (possibly empty),
\* never undefined, and no search handler has thrown, also when the answer has no poses
C12_ResultListAlwaysASequence ==
    /\ page.poses \in Seq(Nat)
    /\ home.poses.defined
    /\ ~home.threw

\* this step widens the pool
Widens == plan.pc = "filtered" /\ plan'.pc = "query"

\* C19: in DYNAMIC mode the widening loop ends: the pool starts at 2 x target_count, is
\* doubled at most 4 times and never exceeds the hard ceiling; a widening starts only
\* after the pass before it has been filtered, and none starts once target_count
\* results have survived the filter
C19_WideningTerminates ==
    /\ [](/\ plan.widenings <= 4
          /\ plan.pool <= PoolCeiling
          /\ plan.pc = "done" => Len(plan.results) <= plan.target)
    /\ [][plan'.widenings # plan.widenings /\ plan'.pc # "idle"
            => /\ Widens
               /\ plan'.widenings = plan.widenings + 1
               /\ plan'.pool \in {2 * plan.pool, PoolCeiling}
               /\ Len(plan.survivors) < plan.target]_vars
    /\ (plan.pc \in {"query", "filtered"}) ~> (plan.pc = "done")

C19_Witness ==
    /\ plan.pc = "done"
    /\ plan.widenings = 4
    /\ plan.pool < PoolCeiling
    /\ Len(plan.results) < plan.target

\* the index holds at least n poses at or above the floor
HoldsAbove(ix, n) == ix.good >= n

LoadMoresInFlight ==
    {k \in DOMAIN pageRun.inflight :
        pageRun.inflight[k].owner = "page" /\ ~pageRun.inflight[k].reset}

\* C23: in normal mode at most one load-more request to /api/poses is in flight: a
\* scroll event during a pending load-more fetch starts no other, so no page is
\* requested or appended twice
C23_OneLoadMoreInFlight ==
    /\ Cardinality(LoadMoresInFlight) <= 1
    /\ \A j, k \in LoadMoresInFlight :
          pageRun.inflight[j].pageNo = pageRun.inflight[k].pageNo => j = k

\* this step is the completion of the i-th fetch in flight, a load-more fetch whose
\* answer is appended
LoadMoreCompletes(i) ==
    /\ pageRun.inflight[i].owner = "page"
    /\ ~pageRun.inflight[i].reset
    /\ pageRun'.inflight = PageWithout(i)
    /\ page'.page = page.page + 1

\* C24: when a load-more fetch completes in normal mode, poses is the list before
\* followed by the fetched page and page is one greater, and this stays: the completion
\* does not make the effect due, which would start a reset fetch of page 1
C24_LoadMoreResultPersists ==
    [][\A i \in DOMAIN pageRun.inflight :
          LoadMoreCompletes(i)
              => /\ Len(page'.poses) >= Len(page.poses)
                 /\ SubSeq(page'.poses, 1, Len(page.poses)) = page.poses
                 /\ pageRun'.pending => pageRun.pending]_vars

\* the user submits a normal search, resets, or runs another AI / vector search
UserChangesSearch ==
    \/ \E q \in Queries : CallOnSearch(q)
    \/ CallOnResetSearch
    \/ \E v \in AIPosesValues : CallOnAISearchResult(v)

\* C25: once handleAISearchResult has installed a non-empty list, poses stays that
\* list, searchType stays 'ai' and hasMore stays false until the user changes the
\* search: no effect run and no late answer of an earlier /api/poses fetch replaces it
C25_AIResultStays ==
    [][(page.searchType = "ai" /\ page.poses # <<>> /\ ~UserChangesSearch)
          => /\ page'.poses = page.poses
             /\ page'.searchType = "ai"
             /\ ~page'.hasMore]_vars

\* every reset fetch has been answered and no effect is due, with a fetched list shown
Settled ==
    /\ ~pageRun.pending
    /\ \A k \in DOMAIN pageRun.inflight : pageRun.inflight[k].owner # "page"
    /\ pageRun.shown
    /\ page.searchType = "normal" /\ ~page.isAISearch

\* C26: after the search text changed several times, once all answers of the reset
\* fetches have arrived the list shown is the answer to the latest search text, in
\* whatever order the answers arrived
C26_LatestFiltersWin ==
    Settled => pageRun.shownFor = page.filtersSearch

\* C27: after any sequence of typing, focus, ArrowUp / ArrowDown, Enter, Escape and
\* suggestion clicks, whenever the suggestion list is shown selectedIndex is at least -1
\* and less than suggestions.length
C27_SelectedIndexInRange ==
    (showSuggestions /\ Len(suggestions) > 0)
        => (-1 <= selectedIndex /\ selectedIndex < Len(suggestions))

\* no pose is listed twice
NoPoseTwice(l) == \A j, k \in DOMAIN l : l[j] = l[k] => j = k

\* C28: the list handed to PoseGrid holds each fetched page once and in page order, its
\* length never exceeds page * 20, and rendering reaches a fixed point: once allPoses
\* holds the pages fetched so far no render calls setAllPoses again
C28_PagesAccumulateOnce ==
    /\ NoPoseTwice(FeedPoses(feed))
    /\ Len(FeedPoses(feed)) <= feed.page * PerPage
    /\ (feed.data.defined /\ feed.data.page = feed.page /\ feed.page > 1
            /\ Len(feed.allPoses) = feed.page * PerPage)
          => ~ENABLED FeedRender

\* C29: proxyToBackendWithTimeout always completes: under every behaviour of the
\* backend the call ends, with the result or the error of proxyToBackend, or with the
\* abort error when the backend has not answered within `timeout` ms; when it has ended
\* the timer is not armed any more, and no abort fires after the end
C29_ProxyAlwaysCompletes ==
    /\ [](proxy.pc = "done"
             => /\ proxy.timer # "armed"
                /\ proxy.result = proxyToBackendWithTimeout(proxy.outcome, proxy.timeout))
    /\ [][proxy.pc = "done" => proxy'.timer = proxy.timer]_vars
    /\ (proxy.pc # "idle") ~> (proxy.pc = "done")

\* a call whose backend sent the headers and not the body in time has ended by abort
C29_Witness ==
    /\ proxy.pc = "done" /\ proxy.aborted /\ proxy.timer = "fired"
    /\ proxy.outcome.slow = "body" /\ proxy.method = "POST"

\* C30: every submit of a query that is not blank ends by handing the search to the
\* parent exactly once, whatever the search API does (an ok answer, an answer that is
\* not ok, a thrown error), and isLoading is false afterwards
C30_SearchHandedOnce ==
    (feed.bar.submitted /\ feed.bar.pc = "idle")
        => (feed.bar.handed = 1 /\ ~feed.bar.isLoading)

\* the ids of a list of results
Ids(results) == {results[k].id : k \in DOMAIN results}

C22_ReadsOneSnapshot ==
    \A r \in Readers :
        LET rd == store.readers[r]
        IN /\ \A j, k \in DOMAIN rd.seen : rd.seen[j] = rd.seen[k]
           /\ \A k \in DOMAIN rd.seen : rd.seen[k] <= store.current
           /\ rd.pc = "reading" => rd.snap \in store.live

\* a request that began before a swap has made its lookups after it, while another
\* request reads the new index
C22_Witness ==
    /\ store.readers[1].pc = "reading" /\ store.readers[2].pc = "reading"
    /\ store.readers[1].snap < store.current
    /\ store.readers[2].snap = store.current
    /\ Len(store.readers[1].seen) = 2 /\ Len(store.readers[2].seen) = 2
    /\ store.building

====
